---- MODULE Spec2Model ----
(***************************************************************************)
(* youtube-uploader-cli: the terminal wizard (index.tsx), the credential   *)
(* store (auth.ts) and the upload client (uploader.ts) as one state        *)
(* machine.  Text that the code inspects character by character (file      *)
(* names, typed paths) is a sequence of one-character strings; text the    *)
(* code only stores and shows (title, messages, ids) is a string.          *)
(***************************************************************************)
EXTENDS Integers, Sequences, FiniteSets, TLC

(***************************************************************************)
(* Bounds of the model.                                                    *)
(***************************************************************************)
\* largest number of entries of the working directory in the browse runs
MaxDirSize == 2
\* largest number of files an outside process removes during a run
MaxRemoved == 1

(***************************************************************************)
(* Step identifiers, index.tsx lines 14-28.                                *)
(***************************************************************************)
SELECT_FILES == "Select Video File"
ENTER_TITLE == "Enter Title"
ENTER_DESC == "Enter Description"
ENTER_TAGS == "Enter Tags (comma-separated)"
SELECT_PRIVACY == "Select Privacy"
CONFIRM_UPLOAD == "Ready to Upload?"
UPLOADING == "Uploading..."
SUCCESS == "Success!"
ERROR == "Error"
MAIN_MENU == "Main Menu"
HELP == "Help"
LOGIN == "Login"
AUTHENTICATING == "Authenticating..."
FILE_INPUT_METHOD == "File Input Method"
ENTER_FILE_PATH == "Enter File Path"

privacyOptions == {"public", "private", "unlisted"}
mainMenuOptions == {"upload", "login", "help", "exit"}
fileInputMethodOptions == {"browse", "manual"}

\* the absent value of an optional string field
UNDEFINED == "undefined"
\* the absent value of an optional field holding a character sequence
UNDEFINED_TEXT == <<"undefined">>
\* the absent value of the optional tags array
UNDEFINED_TAGS == << <<"undefined">> >>

(***************************************************************************)
(* Text helpers.                                                           *)
(***************************************************************************)
RECURSIVE Str(_)
\* the string a character sequence spells
Str(s) == IF s = <<>> THEN "" ELSE s[1] \o Str(Tail(s))

IsSpace(c) == c \in {" ", "\t"}

RECURSIVE TrimStart(_)
TrimStart(s) ==
  IF s # <<>> /\ IsSpace(s[1]) THEN TrimStart(Tail(s)) ELSE s

RECURSIVE TrimEnd(_)
TrimEnd(s) ==
  IF s # <<>> /\ IsSpace(s[Len(s)]) THEN TrimEnd(SubSeq(s, 1, Len(s) - 1)) ELSE s

\* String.prototype.trim
Trim(s) == TrimEnd(TrimStart(s))

UpperLetters ==
  <<"A","B","C","D","E","F","G","H","I","J","K","L","M",
    "N","O","P","Q","R","S","T","U","V","W","X","Y","Z">>
LowerLetters ==
  <<"a","b","c","d","e","f","g","h","i","j","k","l","m",
    "n","o","p","q","r","s","t","u","v","w","x","y","z">>

\* the canonical form the /i flag compares characters in
Canonicalize(c) ==
  IF \E i \in 1..Len(UpperLetters) : UpperLetters[i] = c
    THEN LowerLetters[CHOOSE i \in 1..Len(UpperLetters) : UpperLetters[i] = c]
    ELSE c

\* the alternatives of the group (mp4|mov|avi|wmv)
VideoAlternatives ==
  { <<"m","p","4">>, <<"m","o","v">>, <<"a","v","i">>, <<"w","m","v">> }

\* the alternative alt matches f at positions from..from+Len(alt)-1, ignoring case
MatchesAt(f, from, alt) ==
  /\ from + Len(alt) - 1 <= Len(f)
  /\ \A k \in 1..Len(alt) : Canonicalize(f[from + k - 1]) = Canonicalize(alt[k])

\* the same pattern without the $ anchor
VideoRegexTestUnanchored(f) ==
  \E i \in 1..Len(f) :
    /\ f[i] = "."
    /\ \E alt \in VideoAlternatives : MatchesAt(f, i + 1, alt)

\* /\.(mp4|mov|avi|wmv)$/i.test(f): a dot at some position, one alternative
\* right after it, and then the end of the string
VideoRegexTest(f) ==
  \E i \in 1..Len(f) :
    /\ f[i] = "."
    /\ \E alt \in VideoAlternatives :
         /\ MatchesAt(f, i + 1, alt)
         /\ i + Len(alt) = Len(f)

(***************************************************************************)
(* The file system the program sees.                                       *)
(***************************************************************************)
\* process.cwd()
Cwd == <<"/","w">>

\* names a working directory may hold
NameA == <<"a",".","m","p","4">>
NameB == <<"B",".","M","O","V">>
NameC == <<"c",".","A","v","i">>
NameD == <<"d",".","w","m","v">>
NameE == <<"e",".","m","p","4",".","t","x","t">>
NameF == <<"f","m","p","4">>
NameG == <<"g",".","m","p","3">>
NameH == <<".","m","o","v","x">>
CandidateNames == <<NameA, NameB, NameC, NameD, NameE, NameF, NameG, NameH>>

\* paths outside the working directory
PathVideo == <<"/","v">>
PathDir == <<"/","d">>
PathLink == <<"/","l">>
PathFifo == <<"/","p">>
PathNone == <<"/","n">>

IsAbsolute(p) == p # <<>> /\ p[1] = "/"

\* path.resolve(f): a relative path is taken from the working directory
PathResolve(f) == IF IsAbsolute(f) THEN f ELSE Cwd \o <<"/">> \o f

\* what lies at an absolute path before links are followed
EntryAt(dir, removed, q) ==
  IF q \in removed THEN "absent"
  ELSE IF q = PathVideo THEN "file"
  ELSE IF q = PathDir THEN "dir"
  ELSE IF q = PathFifo THEN "other"
  ELSE IF q = PathLink THEN "link"
  ELSE IF \E n \in dir : q = PathResolve(n) THEN "file"
  ELSE "absent"

\* the target of the one symbolic link
FollowLink(dir, removed, q) ==
  IF EntryAt(dir, removed, q) = "link" THEN PathVideo ELSE q

\* fs.statSync(p), links followed: "file", "dir", "other" or "absent"
StatKind(dir, removed, p) ==
  EntryAt(dir, removed, FollowLink(dir, removed, PathResolve(p)))

\* fs.existsSync(p)
ExistsSync(dir, removed, p) == StatKind(dir, removed, p) # "absent"

\* fs.realpathSync(p) of an existing path: absolute, links resolved
RealPath(dir, removed, p) == FollowLink(dir, removed, PathResolve(p))

\* stats.size: c.Avi has 8 bytes, d.wmv has 1, every other file 100
FileSize(q) ==
  IF q = PathResolve(NameC) THEN 8
  ELSE IF q = PathResolve(NameD) THEN 1
  ELSE 100

\* fs.readdirSync('.'): the names present, in directory order
ReadDir(dir, removed) ==
  SelectSeq(CandidateNames,
            LAMBDA n : n \in dir /\ PathResolve(n) \notin removed)

\* readdirSync('.').filter(regex).map(f => ({label: f, value: path.resolve(f)}))
VideoFiles(dir, removed) ==
  LET names == SelectSeq(ReadDir(dir, removed), VideoRegexTest)
  IN [i \in 1..Len(names) |-> [label |-> names[i], value |-> PathResolve(names[i])]]

(***************************************************************************)
(* The logger as far as its callers see it: the entries a call hands to    *)
(* writeToFile.                                                            *)
(***************************************************************************)
LevelRank(level) ==
  CASE level = "DEBUG" -> 0 [] level = "INFO" -> 1 [] level = "WARN" -> 2 [] level = "ERROR" -> 3

\* Logger.logLevel, never changed by the program
logLevel == "INFO"

shouldLog(level) == LevelRank(level) >= LevelRank(logLevel)

LogEntry(level, message, errorMessage) ==
  IF shouldLog(level)
    THEN << [level |-> level, message |-> message, error |-> errorMessage] >>
    ELSE << >>

LoggerDebug(message) == LogEntry("DEBUG", message, "")
LoggerInfo(message) == LogEntry("INFO", message, "")
LoggerError(message, errorMessage) == LogEntry("ERROR", message, errorMessage)
logAuthStart == LoggerInfo("Authentication process started")
logAuthSuccess == LoggerInfo("Authentication successful")
logAuthError(errorMessage) == LoggerError("Authentication failed", errorMessage)
logUploadError(errorMessage) == LoggerError("Video upload failed", errorMessage)
logUploadSuccess == LoggerInfo("Video upload completed successfully")
logUploadStart == LoggerInfo("Video upload started")
logUploadProgress == LoggerDebug("Upload progress")
logFileValidation == LoggerInfo("File validation passed")
logMetadataValidation == LoggerInfo("Metadata validation passed")

(***************************************************************************)
(* The logger's files, logger.ts.  A log file is the sequence of its       *)
(* lines; a file that does not exist has none (every append adds a line).  *)
(***************************************************************************)
\* the last calendar day of the clock
MaxDay == 2
\* the most lines the log files hold together
MaxLogLines == 2

Days == 1..MaxDay

\* new Date().toISOString().split('T')[0] on the given day
IsoDate(day) == "2025-01-0" \o ToString(day)

\* lines 37-39: date.toISOString()
formatTimestamp(day) == IsoDate(day) \o "T12:00:00.000Z"

\* lines 32-35, the first declaration of getLogFilePath
getLogFilePath(day) == "/w/logs/youtube-uploader-" \o IsoDate(day) \o ".log"

\* lines 235-237, the second declaration of getLogFilePath: the field as it is
getLogFilePathField(file) == file

LogFilePaths == { getLogFilePath(d) : d \in Days }

\* what may be passed as the error of Logger.error: an Error, a thrown
\* string, nothing, an object that is no Error
ErrorObject(message) ==
  [ kind |-> "Error", message |-> message, name |-> "Error",
    stack |-> "Error: " \o message \o " at uploadVideo (uploader.ts:23)" ]
ThrownString == [ kind |-> "string", message |-> "boom", name |-> "", stack |-> UNDEFINED ]
NoError == [ kind |-> "undefined", message |-> "", name |-> "", stack |-> UNDEFINED ]
ThrownObject == [ kind |-> "object", message |-> "", name |-> "", stack |-> UNDEFINED ]

\* metadata objects: sequences of << key, value >>; UNDEFINED_METADATA is the
\* omitted argument
UNDEFINED_METADATA == << << "undefined", "undefined" >> >>
FilePathMetadata == << << "filePath", "/v" >> >>

RECURSIVE JSONProperties(_)
JSONProperties(m) ==
  IF m = << >> THEN ""
  ELSE "\"" \o m[1][1] \o "\":\"" \o m[1][2] \o "\""
       \o (IF Len(m) > 1 THEN "," ELSE "") \o JSONProperties(Tail(m))

\* JSON.stringify of a metadata object
JSONstringifyMetadata(m) == "{" \o JSONProperties(m) \o "}"

\* the record writeToFile is handed (interface LogEntry, lines 7-13)
Entry(day, level, message, metadata, stack) ==
  [ timestamp |-> formatTimestamp(day), level |-> level, message |-> message,
    metadata |-> metadata, stack |-> stack ]

\* lines 41-53: the lines of an entry
formatLogEntry(entry) ==
  LET baseLog == "[" \o entry.timestamp \o "] [" \o entry.level \o "] " \o entry.message
  IN IF entry.metadata # UNDEFINED_METADATA /\ Len(entry.metadata) > 0
       THEN << baseLog \o " " \o JSONstringifyMetadata(entry.metadata) >>
       ELSE IF entry.stack # UNDEFINED /\ entry.stack # ""
         THEN << baseLog, entry.stack >>
         ELSE << baseLog >>

\* lines 121-133: the metadata and the stack Logger.error puts in its entry
errorMetadata(err, metadata) ==
  LET given == IF metadata = UNDEFINED_METADATA THEN << >> ELSE metadata
  IN CASE err.kind = "Error" ->
            given \o << << "errorMessage", err.message >>, << "errorName", err.name >> >>
       [] err.kind = "object" -> given \o << << "error", "[object]" >> >>
       [] OTHER -> given
errorStack(err) == IF err.kind = "Error" THEN err.stack ELSE UNDEFINED

NoEntry == Entry(1, "NONE", "", UNDEFINED_METADATA, UNDEFINED)

NoLog ==
  [ op |-> "none", entry |-> NoEntry, err |-> NoError, lines |-> << >>, day |-> 1,
    appended |-> FALSE, ioFailed |-> FALSE ]

(***************************************************************************)
(* The credential store, auth.ts.                                          *)
(***************************************************************************)
\* contents of the token cache file; NO_FILE stands for its absence
NO_FILE == [json |-> FALSE, value |-> "ENOENT"]
GARBAGE == [json |-> FALSE, value |-> "garbage"]
\* a serialisation that loses the tokens
JSONstringifyEmpty(c) == [json |-> TRUE, value |-> "{}"]

\* JSON.stringify of a credentials value; JSON.parse gives back the value
JSONstringify(c) == [json |-> TRUE, value |-> c]

\* the credentials values a client may carry
NULL == "null"
EMPTY_OBJECT == "{}"
TokenA == "tokenA"
TokenB == "tokenB"
Truthy(c) == c \notin {UNDEFINED, NULL, ""}

\* what the token cache may hold when the program starts
InitialTokenFiles ==
  { NO_FILE, GARBAGE, JSONstringify(NULL), JSONstringify(EMPTY_OBJECT), JSONstringify(TokenA) }

\* what the consent flow may leave in client.credentials
ConsentCredentials == { UNDEFINED, TokenB }

NoCredentialsMessage == "No valid credentials found. Run auth flow first."
CredentialsFileMessage == "Credentials file not found at: /w/credentials.json"

\* a call that throws; obtained: what the consent flow yielded, if it ran
AuthFail(message, consent, obtained, file, log) ==
  [ok |-> FALSE, credentials |-> UNDEFINED, message |-> message,
   consent |-> consent, obtained |-> obtained, tokensFile |-> file,
   log |-> log \o logAuthError(message)]

AuthOk(credentials, consent, obtained, file, log) ==
  [ok |-> TRUE, credentials |-> credentials, message |-> "",
   consent |-> consent, obtained |-> obtained, tokensFile |-> file, log |-> log]

\* lines 54-60: the check every path ends with
AuthFinish(credentials, consent, obtained, file, log) ==
  IF ~Truthy(credentials)
    THEN { AuthFail(NoCredentialsMessage, consent, obtained, file,
                    log \o logAuthError(NoCredentialsMessage)) }
    ELSE { AuthOk(credentials, consent, obtained, file, log) }

\* lines 18-26: the cache file exists
AuthorizeCached(file) ==
  LET log0 == logAuthStart \o LoggerInfo("Using existing cached credentials")
  IN  { AuthFail("EACCES: permission denied, open", FALSE, UNDEFINED, file, log0) }
      \cup
      ( IF ~file.json
          THEN { AuthFail("Unexpected token in JSON", FALSE, UNDEFINED, file, log0) }
          ELSE AuthFinish(file.value, FALSE, UNDEFINED, file, log0 \o logAuthSuccess) )

\* lines 38-58: the consent flow, the write of the cache and the last check
ConsentFlow(file, log0) ==
  { AuthFail("consent flow failed", TRUE, UNDEFINED, file, log0) }
  \cup
  UNION { IF Truthy(c)
            THEN { AuthFail("ENOSPC: no space left on device, write", TRUE, c,
                            NO_FILE, log0),
                   AuthFail("ENOSPC: no space left on device, write", TRUE, c,
                            GARBAGE, log0) }
                 \cup
                 AuthFinish(c, TRUE, c, JSONstringify(c),
                            log0 \o LoggerInfo("Saved credentials to cache")
                                 \o logAuthSuccess)
            ELSE AuthFinish(c, TRUE, c, file, log0)
        : c \in ConsentCredentials }

\* the branch without the test of credentials.json
AuthorizeFreshUnchecked(file, credsExists) ==
  ConsentFlow(file, logAuthStart \o LoggerInfo("Initiating new authentication flow"))

\* lines 27-52: no cache file
AuthorizeFresh(file, credsExists) ==
  LET log0 == logAuthStart \o LoggerInfo("Initiating new authentication flow")
  IN  IF ~credsExists
        THEN { AuthFail(CredentialsFileMessage, FALSE, UNDEFINED, file,
                        log0 \o logAuthError(CredentialsFileMessage)) }
        ELSE ConsentFlow(file, log0)

\* authorize() that goes to the consent flow whatever the cache holds
authorizeIgnoringCache(file, credsExists) == AuthorizeFresh(file, credsExists)

\* authorize(): the set of ways one call can end
authorize(file, credsExists) ==
  IF file # NO_FILE THEN AuthorizeCached(file) ELSE AuthorizeFresh(file, credsExists)

(***************************************************************************)
(* The upload client, uploader.ts.                                         *)
(***************************************************************************)
\* the precondition checks with the regular-file test first
uploadPrecheckFileFirst(kind) ==
  IF kind = "absent" THEN "FileNotFound"
  ELSE IF kind # "file" THEN "PathNotRegularFile"
  ELSE IF kind = "dir" THEN "PathIsDirectory"
  ELSE "ok"

\* lines 22-39: existsSync, stats.isDirectory(), stats.isFile(), in this order
uploadPrecheck(kind) ==
  IF kind = "absent" THEN "FileNotFound"
  ELSE IF kind = "dir" THEN "PathIsDirectory"
  ELSE IF kind # "file" THEN "PathNotRegularFile"
  ELSE "ok"

PrecheckMessage(failure, filePath) ==
  CASE failure = "FileNotFound" -> "File not found: " \o Str(filePath)
    [] failure = "PathIsDirectory" -> "Path is a directory, not a file: " \o Str(filePath)
    [] failure = "PathNotRegularFile" -> "Path is not a regular file: " \o Str(filePath)

NoVideoIdMessage == "Upload failed: No video ID returned"
ApiErrorMessage == "quotaExceeded"

\* identifiers response.data.id may carry; UNDEFINED when the field is missing
ResponseIds == { UNDEFINED, "", "abc123" }

\* the percentages at which progress events arrive
ProgressPercents == { 47, 100 }

\* evt.bytesRead of the events of a file of the given size
ProgressPoints(fileSize) == { (fileSize * k) \div 100 : k \in ProgressPercents }

\* the quotient without the factor 100
ProgressValueFraction(bytesRead, fileSize) == [n |-> bytesRead, d |-> fileSize]

\* line 85: (evt.bytesRead / fileSize) * 100, as the exact quotient n/d
ProgressValue(bytesRead, fileSize) == [n |-> bytesRead * 100, d |-> fileSize]

(***************************************************************************)
(* The wizard, index.tsx.                                                  *)
(***************************************************************************)
VARIABLES
  state,        \* the AppState of the App component
  listing,      \* the items of the SelectInput the SELECT_FILES view shows
  pc,           \* what the program waits for
  dir,          \* the names in the working directory
  removed,      \* paths an outside process has removed
  tokensFile,   \* content of the token cache file
  credsExists,  \* whether credentials.json exists
  auth,         \* the authorize() call of the handler that ran last, if it made one
  up,           \* the uploadVideo() call of the handler that ran last, if it made one
  fsCalls,      \* the file-system calls validateAndSelectFile made in the last handler
  tagsEntry,    \* the text the tags field passed to handleTagsChange last
  today,        \* the calendar day (UTC) of the clock
  currentLogFile, \* Logger.currentLogFile: the day in the file's name
  logFiles,     \* the lines of the log file of each day
  lastLog       \* the logger operation that ran last

vars ==
  << state, listing, pc, dir, removed, tokensFile, credsExists, auth, up, fsCalls,
     tagsEntry, today, currentLogFile, logFiles, lastLog >>

\* the state of the wizard and of the files it works on
wizardVars ==
  << state, listing, pc, dir, removed, tokensFile, credsExists, auth, up, fsCalls, tagsEntry >>

\* the state of the logger and of its files
loggerVars == << today, currentLogFile, logFiles, lastLog >>

\* the logger after its construction on day 1 with the given currentLogFile
LoggerInit(file) ==
  /\ today = 1
  /\ currentLogFile = file
  /\ logFiles = [ f \in LogFilePaths |-> << >> ]
  /\ lastLog = NoLog

\* lines 69-75
InitialState ==
  [ step |-> MAIN_MENU,
    filePath |-> UNDEFINED_TEXT,
    metadata |-> [ title |-> UNDEFINED, description |-> UNDEFINED,
                   tags |-> UNDEFINED_TAGS, privacy |-> UNDEFINED, categoryId |-> "22" ],
    progress |-> [n |-> 0, d |-> 1],
    videoId |-> UNDEFINED,
    error |-> UNDEFINED,
    loading |-> FALSE,
    isAuthenticated |-> FALSE ]

NoAuth ==
  [ calls |-> FALSE, cacheExisted |-> FALSE, consent |-> FALSE, ok |-> FALSE,
    credentials |-> UNDEFINED, obtained |-> UNDEFINED, message |-> "", log |-> << >> ]

NoUpload ==
  [ calls |-> FALSE, filePath |-> UNDEFINED_TEXT, exists |-> FALSE, stat |-> "none",
    fileSize |-> 0,
    failure |-> "", insertIssued |-> FALSE, completed |-> FALSE,
    err |-> UNDEFINED, responseId |-> UNDEFINED, bytesRead |-> 0, log |-> << >> ]

\* what the user may type into the file path field
ManualInputs ==
  { << >>, <<" ", "\t">>, PathVideo, PathDir, PathLink, PathFifo, PathNone, NameA }
TitleInputs == { "", "My video" }
DescInputs == { "about" }

\* !x of an optional character sequence
FalsyText(t) == t = UNDEFINED_TEXT \/ t = << >>
\* !x of an optional string
FalsyString(t) == t = UNDEFINED \/ t = ""

\* the working directories of the wizard runs: no, one and two video files
WizardDirs == { {}, { NameA, NameG }, { NameA, NameB } }

\* the directory and token cache of the runs that vary the credentials
DefaultDir == { NameA, NameB }
DefaultTokenFile == JSONstringify(TokenA)

\* The wizard starts at the main menu.  The runs cover every content of the
\* token cache, with and without credentials.json, in the two-video directory,
\* and every directory of WizardDirs with a valid cache.
Init ==
  /\ state = InitialState
  /\ listing = << >>
  /\ pc = "ui"
  /\ \/ dir = DefaultDir /\ tokensFile \in InitialTokenFiles /\ credsExists \in BOOLEAN
     \/ dir \in WizardDirs /\ tokensFile = DefaultTokenFile /\ credsExists = TRUE
  /\ removed = {}
  /\ auth = NoAuth
  /\ up = NoUpload
  /\ fsCalls = << >>
  /\ tagsEntry = << >>
  /\ LoggerInit(getLogFilePath(1))

Env == << dir, removed, tokensFile, credsExists >>

\* a handler of a user input starts with no call of the earlier handler pending
NoCalls == auth' = NoAuth /\ up' = NoUpload /\ fsCalls' = << >>

\* lines 122-132
handleMainMenuSelect(item) ==
  /\ pc = "ui" /\ state.step = MAIN_MENU
  /\ NoCalls
  /\ CASE item = "upload" ->
            /\ state' = [state EXCEPT !.step = FILE_INPUT_METHOD, !.filePath = UNDEFINED_TEXT]
            /\ pc' = pc
       [] item = "login" -> state' = [state EXCEPT !.step = LOGIN] /\ pc' = pc
       [] item = "help" -> state' = [state EXCEPT !.step = HELP] /\ pc' = pc
       [] item = "exit" -> state' = state /\ pc' = "exited"
  /\ UNCHANGED << listing, Env >>
  /\ UNCHANGED << tagsEntry, loggerVars >>

\* lines 244-250; the SELECT_FILES view (lines 279-288) is rendered right after
handleFileInputMethodSelect(item) ==
  /\ pc = "ui" /\ state.step = FILE_INPUT_METHOD
  /\ NoCalls
  /\ IF item = "browse"
       THEN /\ state' = [state EXCEPT !.step = SELECT_FILES]
            /\ listing' = VideoFiles(dir, removed)
            /\ pc' = "effect"
       ELSE /\ state' = [state EXCEPT !.step = ENTER_FILE_PATH]
            /\ UNCHANGED << listing, pc >>
  /\ UNCHANGED << Env >>
  /\ UNCHANGED << tagsEntry, loggerVars >>

\* the effect selecting the first file of any non-empty listing
autoSelectEffectAny ==
  /\ pc = "effect"
  /\ pc' = "ui"
  /\ fsCalls' = fsCalls
  /\ LET files == VideoFiles(dir, removed)
     IN IF state.step = SELECT_FILES /\ FalsyText(state.filePath) /\ Len(files) >= 1
          THEN /\ state' = [state EXCEPT !.filePath = files[1].value, !.step = ENTER_TITLE]
               /\ listing' = << >>
          ELSE UNCHANGED << state, listing >>
  /\ UNCHANGED << Env, auth, up >>
  /\ UNCHANGED << tagsEntry, loggerVars >>

\* lines 77-88: the effect that runs once the SELECT_FILES view is shown
autoSelectEffect ==
  /\ pc = "effect"
  /\ pc' = "ui"
  /\ fsCalls' = fsCalls
  /\ LET files == VideoFiles(dir, removed)
     IN IF state.step = SELECT_FILES /\ FalsyText(state.filePath) /\ Len(files) = 1
          THEN /\ state' = [state EXCEPT !.filePath = files[1].value, !.step = ENTER_TITLE]
               /\ listing' = << >>
          ELSE UNCHANGED << state, listing >>
  /\ UNCHANGED << Env, auth, up >>
  /\ UNCHANGED << tagsEntry, loggerVars >>

\* lines 90-92, on an item of the list shown
handleFileSelect(item) ==
  /\ pc = "ui" /\ state.step = SELECT_FILES
  /\ NoCalls
  /\ state' = [state EXCEPT !.filePath = item.value, !.step = ENTER_TITLE]
  /\ listing' = << >>
  /\ UNCHANGED << pc, Env >>
  /\ UNCHANGED << tagsEntry, loggerVars >>

\* lines 94-96
handleTitleChange(title) ==
  /\ pc = "ui" /\ state.step = ENTER_TITLE
  /\ NoCalls
  /\ state' = [state EXCEPT !.metadata.title = title]
  /\ UNCHANGED << listing, pc, Env >>
  /\ UNCHANGED << tagsEntry, loggerVars >>

\* the title submit skipping the description
handleTitleSubmitSkipping ==
  /\ pc = "ui" /\ state.step = ENTER_TITLE
  /\ NoCalls
  /\ state' = [state EXCEPT !.step = ENTER_TAGS]
  /\ UNCHANGED << listing, pc, Env >>
  /\ UNCHANGED << tagsEntry, loggerVars >>

\* lines 98-100
handleTitleSubmit ==
  /\ pc = "ui" /\ state.step = ENTER_TITLE
  /\ NoCalls
  /\ state' = [state EXCEPT !.step = ENTER_DESC]
  /\ UNCHANGED << listing, pc, Env >>
  /\ UNCHANGED << tagsEntry, loggerVars >>

\* lines 102-104
handleDescChange(desc) ==
  /\ pc = "ui" /\ state.step = ENTER_DESC
  /\ NoCalls
  /\ state' = [state EXCEPT !.metadata.description = desc]
  /\ UNCHANGED << listing, pc, Env >>
  /\ UNCHANGED << tagsEntry, loggerVars >>

\* lines 106-108
handleDescSubmit ==
  /\ pc = "ui" /\ state.step = ENTER_DESC
  /\ NoCalls
  /\ state' = [state EXCEPT !.step = ENTER_TAGS]
  /\ UNCHANGED << listing, pc, Env >>
  /\ UNCHANGED << tagsEntry, loggerVars >>

RECURSIVE Split(_, _)
\* String.prototype.split(sep) for a one-character separator
Split(s, sep) ==
  IF \E i \in 1..Len(s) : s[i] = sep
    THEN LET i == CHOOSE k \in 1..Len(s) : s[k] = sep /\ \A m \in 1..(k - 1) : s[m] # sep
         IN << SubSeq(s, 1, i - 1) >> \o Split(SubSeq(s, i + 1, Len(s)), sep)
    ELSE << s >>

\* the parsing without the trim
ParseTagsUntrimmed(text) == SelectSeq(Split(text, ","), LAMBDA t : t # << >>)

\* tags.split(',').map(t => t.trim()).filter(Boolean)
ParseTags(text) ==
  LET pieces == Split(text, ",")
      trimmed == [i \in 1..Len(pieces) |-> Trim(pieces[i])]
  IN SelectSeq(trimmed, LAMBDA t : t # << >>)

\* what the user may enter as tags
TagInputs == { <<"a", ",", " ", "b", " ", ",", "c">> }

\* lines 110-112
handleTagsChange(tags) ==
  /\ pc = "ui" /\ state.step = ENTER_TAGS
  /\ NoCalls
  /\ state' = [state EXCEPT !.metadata.tags = ParseTags(tags)]
  /\ tagsEntry' = tags
  /\ UNCHANGED << listing, pc, Env >>
  /\ UNCHANGED loggerVars

\* lines 114-116
handleTagsSubmit ==
  /\ pc = "ui" /\ state.step = ENTER_TAGS
  /\ NoCalls
  /\ state' = [state EXCEPT !.step = SELECT_PRIVACY]
  /\ UNCHANGED << listing, pc, Env >>
  /\ UNCHANGED << tagsEntry, loggerVars >>

\* lines 118-120
handlePrivacySelect(item) ==
  /\ pc = "ui" /\ state.step = SELECT_PRIVACY
  /\ NoCalls
  /\ state' = [state EXCEPT !.metadata.privacy = item, !.step = CONFIRM_UPLOAD]
  /\ UNCHANGED << listing, pc, Env >>
  /\ UNCHANGED << tagsEntry, loggerVars >>

\* line 263: onChange of the file path field
handleFilePathChange(value) ==
  /\ pc = "ui" /\ state.step = ENTER_FILE_PATH
  /\ NoCalls
  /\ state' = [state EXCEPT !.filePath = value]
  /\ UNCHANGED << listing, pc, Env >>
  /\ UNCHANGED << tagsEntry, loggerVars >>

\* the submit test without the trim
IsBlankPathUntrimmed(filePath) == FalsyText(filePath)

\* line 265: !state.filePath || state.filePath.trim() === ''
IsBlankPath(filePath) == FalsyText(filePath) \/ Trim(filePath) = << >>

\* validateAndSelectFile keeping the path as typed
validateAndSelectFileUnresolved(path, throws) ==
  IF ~ExistsSync(dir, removed, path)
    THEN /\ state' = [state EXCEPT !.error = "File does not exist", !.step = ERROR]
         /\ fsCalls' = <<"existsSync">>
    ELSE /\ fsCalls' = <<"existsSync", "realpathSync">>
         /\ IF throws
              THEN state' = [state EXCEPT !.error = "EACCES: permission denied, realpath",
                                          !.step = ERROR]
              ELSE state' = [state EXCEPT !.filePath = path, !.step = ENTER_TITLE]

\* lines 134-145; throws: whether realpathSync fails
validateAndSelectFile(path, throws) ==
  IF ~ExistsSync(dir, removed, path)
    THEN /\ state' = [state EXCEPT !.error = "File does not exist", !.step = ERROR]
         /\ fsCalls' = <<"existsSync">>
    ELSE /\ fsCalls' = <<"existsSync", "realpathSync">>
         /\ IF throws
              THEN state' = [state EXCEPT !.error = "EACCES: permission denied, realpath",
                                          !.step = ERROR]
              ELSE state' = [state EXCEPT !.filePath = RealPath(dir, removed, path),
                                          !.step = ENTER_TITLE]

\* lines 264-270: onSubmit of the file path field
handleFilePathSubmit ==
  /\ pc = "ui" /\ state.step = ENTER_FILE_PATH
  /\ IF IsBlankPath(state.filePath)
       THEN /\ state' = [state EXCEPT !.error = "Please enter a file path", !.step = ERROR]
            /\ fsCalls' = << >>
       ELSE \E throws \in BOOLEAN : validateAndSelectFile(state.filePath, throws)
  /\ auth' = NoAuth /\ up' = NoUpload
  /\ UNCHANGED << listing, pc, Env >>
  /\ UNCHANGED << tagsEntry, loggerVars >>

\* lines 157-159, the submit of the HELP and ERROR views
handleBackToMenu ==
  /\ pc = "ui" /\ state.step \in {HELP, ERROR}
  /\ NoCalls
  /\ state' = [state EXCEPT !.step = MAIN_MENU]
  /\ UNCHANGED << listing, pc, Env >>
  /\ UNCHANGED << tagsEntry, loggerVars >>

\* what is kept of an authorize() call that found the cache as file and ended as r
AuthRecord(file, r) ==
  [ calls |-> TRUE, cacheExisted |-> file # NO_FILE, consent |-> r.consent, ok |-> r.ok,
    credentials |-> r.credentials, obtained |-> r.obtained, message |-> r.message,
    log |-> r.log ]

\* lines 147-148: handleLogin up to the await
handleLogin ==
  /\ pc = "ui" /\ state.step = LOGIN
  /\ NoCalls
  /\ state' = [state EXCEPT !.loading = TRUE, !.step = AUTHENTICATING, !.error = UNDEFINED]
  /\ pc' = "login_authorize"
  /\ UNCHANGED << listing, Env >>
  /\ UNCHANGED << tagsEntry, loggerVars >>

\* lines 150-154: authorize() settles and handleLogin goes on
loginAuthorizeSettles ==
  /\ pc = "login_authorize"
  /\ fsCalls' = fsCalls
  /\ pc' = "ui"
  /\ \E r \in authorize(tokensFile, credsExists) :
       /\ auth' = AuthRecord(tokensFile, r)
       /\ tokensFile' = r.tokensFile
       /\ IF r.ok
            THEN state' = [state EXCEPT !.isAuthenticated = TRUE, !.loading = FALSE,
                                        !.step = MAIN_MENU]
            ELSE state' = [state EXCEPT !.error = r.message, !.loading = FALSE,
                                        !.step = ERROR]
  /\ UNCHANGED << listing, dir, removed, credsExists, up >>
  /\ UNCHANGED << tagsEntry, loggerVars >>

\* the gate without the title test
MissingRequiredFieldsPathOnly(s) == FalsyText(s.filePath)

\* line 162: !state.filePath || !state.metadata.title
MissingRequiredFields(s) == FalsyText(s.filePath) \/ FalsyString(s.metadata.title)

\* handleUpload raising the loading flag before the gate
handleUploadLoadingFirst ==
  /\ pc = "ui" /\ state.step = CONFIRM_UPLOAD
  /\ NoCalls
  /\ IF MissingRequiredFields(state)
       THEN /\ state' = [state EXCEPT !.loading = TRUE, !.error = "Missing required fields"]
            /\ pc' = pc
       ELSE /\ state' = [state EXCEPT !.loading = TRUE, !.step = UPLOADING,
                                      !.error = UNDEFINED]
            /\ pc' = "upload_authorize"
  /\ UNCHANGED << listing, Env >>
  /\ UNCHANGED << tagsEntry, loggerVars >>

\* lines 161-166: handleUpload up to the first await
handleUpload ==
  /\ pc = "ui" /\ state.step = CONFIRM_UPLOAD
  /\ NoCalls
  /\ IF MissingRequiredFields(state)
       THEN /\ state' = [state EXCEPT !.error = "Missing required fields"]
            /\ pc' = pc
       ELSE /\ state' = [state EXCEPT !.loading = TRUE, !.step = UPLOADING,
                                      !.error = UNDEFINED]
            /\ pc' = "upload_authorize"
  /\ UNCHANGED << listing, Env >>
  /\ UNCHANGED << tagsEntry, loggerVars >>

\* lines 168, 176-178: authorize() settles inside handleUpload
uploadAuthorizeSettles ==
  /\ pc = "upload_authorize"
  /\ fsCalls' = fsCalls
  /\ \E r \in authorize(tokensFile, credsExists) :
       /\ auth' = AuthRecord(tokensFile, r)
       /\ tokensFile' = r.tokensFile
       /\ IF r.ok
            THEN state' = state /\ pc' = "upload_start"
            ELSE /\ state' = [state EXCEPT !.error = r.message, !.loading = FALSE,
                                           !.step = ERROR]
                 /\ pc' = "ui"
  /\ UNCHANGED << listing, dir, removed, credsExists, up >>
  /\ UNCHANGED << tagsEntry, loggerVars >>

\* uploader.ts lines 22-89 as called at index.tsx lines 169-174: the
\* precondition checks, the log records and the insert call.  raced: an
\* outside process removes the file before a statSync call, which then
\* throws: the one of uploadVideo (line 28, after existsSync) or the one
\* of logger.logUploadStart (logger.ts line 150, called at line 43)
uploadVideoStarts ==
  /\ pc = "upload_start"
  /\ fsCalls' = fsCalls
  /\ LET filePath == state.filePath
         kind == StatKind(dir, removed, filePath)
         failure == uploadPrecheck(kind)
         call == [NoUpload EXCEPT !.calls = TRUE, !.filePath = filePath,
                                  !.exists = (kind # "absent")]
     IN \E raced \in { "never", "beforeStat", "beforeLogStat" } :
          CASE raced = "beforeStat" ->
                 /\ kind # "absent" /\ Cardinality(removed) < MaxRemoved
                 /\ removed' = removed \cup { filePath }
                 /\ up' = [call EXCEPT !.stat = "throws", !.failure = "StatError"]
                 /\ state' = [state EXCEPT !.error = "ENOENT: no such file or directory, stat",
                                           !.loading = FALSE, !.step = ERROR]
                 /\ pc' = "ui"
            [] raced = "beforeLogStat" ->
                 /\ failure = "ok" /\ Cardinality(removed) < MaxRemoved
                 /\ removed' = removed \cup { filePath }
                 /\ up' = [call EXCEPT !.stat = kind, !.failure = "LoggerStatError",
                                       !.log = logFileValidation \o logMetadataValidation]
                 /\ state' = [state EXCEPT !.error = "ENOENT: no such file or directory, stat",
                                           !.loading = FALSE, !.step = ERROR]
                 /\ pc' = "ui"
            [] raced = "never" ->
                 /\ removed' = removed
                 /\ IF failure # "ok"
                      THEN /\ up' = [call EXCEPT
                                       !.stat = IF kind = "absent" THEN "none" ELSE kind,
                                       !.failure = failure,
                                       !.log = logUploadError(PrecheckMessage(failure, filePath))]
                           /\ state' = [state EXCEPT
                                          !.error = PrecheckMessage(failure, filePath),
                                          !.loading = FALSE, !.step = ERROR]
                           /\ pc' = "ui"
                      ELSE /\ up' = [call EXCEPT !.stat = kind,
                                       !.fileSize = FileSize(filePath),
                                       !.insertIssued = TRUE,
                                       !.log = logFileValidation \o logMetadataValidation
                                                 \o logUploadStart
                                                 \o LoggerDebug("API Request Details")]
                           /\ state' = state
                           /\ pc' = "upload_insert"
  /\ UNCHANGED << listing, dir, tokensFile, credsExists, auth >>
  /\ UNCHANGED << tagsEntry, loggerVars >>

\* uploader.ts lines 84-88 and index.tsx line 173: one progress event
onUploadProgress(bytesRead) ==
  /\ pc = "upload_insert"
  /\ bytesRead > up.bytesRead
  /\ fsCalls' = fsCalls
  /\ up' = [up EXCEPT !.bytesRead = bytesRead, !.log = @ \o logUploadProgress]
  /\ state' = [state EXCEPT !.progress = ProgressValue(bytesRead, up.fileSize)]
  /\ UNCHANGED << listing, pc, Env, auth >>
  /\ UNCHANGED << tagsEntry, loggerVars >>

\* the callback taking any response for a success
insertCallbackAnyResponse(err, responseId) ==
  IF err # UNDEFINED
    THEN [ resolved |-> FALSE, value |-> err,
           log |-> LoggerError("YouTube API Error Response", err) \o logUploadError(err) ]
    ELSE [ resolved |-> TRUE, value |-> responseId,
           log |-> LoggerDebug("YouTube API Success Response") \o logUploadSuccess ]

\* uploader.ts lines 90-123: how the promise of uploadVideo settles
insertCallback(err, responseId) ==
  IF err # UNDEFINED
    THEN [ resolved |-> FALSE, value |-> err,
           log |-> LoggerError("YouTube API Error Response", err) \o logUploadError(err) ]
    ELSE IF Truthy(responseId)
      THEN [ resolved |-> TRUE, value |-> responseId,
             log |-> LoggerDebug("YouTube API Success Response") \o logUploadSuccess ]
      ELSE [ resolved |-> FALSE, value |-> NoVideoIdMessage,
             log |-> LoggerError("YouTube API Response Invalid", NoVideoIdMessage)
                       \o logUploadError(NoVideoIdMessage) ]

\* the insert call completes and handleUpload goes on (index.tsx lines 175-178)
insertCompletes(err, responseId) ==
  /\ pc = "upload_insert"
  /\ fsCalls' = fsCalls
  /\ pc' = "ui"
  /\ LET r == insertCallback(err, responseId)
     IN /\ up' = [up EXCEPT !.completed = TRUE, !.err = err, !.responseId = responseId,
                            !.failure = IF r.resolved THEN ""
                                        ELSE IF err # UNDEFINED THEN "ApiError"
                                        ELSE "NoVideoIdReturned",
                            !.log = @ \o r.log]
        /\ IF r.resolved
             THEN state' = [state EXCEPT !.videoId = r.value, !.step = SUCCESS,
                                         !.loading = FALSE]
             ELSE state' = [state EXCEPT !.error = r.value, !.loading = FALSE,
                                         !.step = ERROR]
  /\ UNCHANGED << listing, Env, auth >>
  /\ UNCHANGED << tagsEntry, loggerVars >>

\* an outside process removes the chosen file while the program waits for
\* authorize(); a removal at another time shows to the program as a path
\* that does not exist (PathNone)
externalRemove(q) ==
  /\ pc = "upload_authorize" /\ q = state.filePath
  /\ Cardinality(removed) < MaxRemoved
  /\ EntryAt(dir, removed, q) = "file"
  /\ removed' = removed \cup { q }
  /\ UNCHANGED << state, listing, pc, dir, tokensFile, credsExists, auth, up, fsCalls >>
  /\ UNCHANGED << tagsEntry, loggerVars >>

\* lines 340-347: the SUCCESS view
SuccessView(s) ==
  [ idLine |-> "Video ID: " \o s.videoId, watchLine |-> "Watch: https://youtu.be/" \o s.videoId ]

\* lines 283-287: what the SELECT_FILES view shows under its heading
SelectFilesView(files) ==
  IF Len(files) > 0 THEN "SelectInput" ELSE "No video files found in current directory."

\* Math.round of a quotient n/d that is not negative: the nearest integer,
\* a half rounded up
MathRound(q) == (2 * q.n + q.d) \div (2 * q.d)

FULL_BLOCK == "full block"
LIGHT_SHADE == "light shade"

\* String.prototype.repeat for a count that is not negative
Repeat(c, count) == [i \in 1..count |-> c]

\* lines 331-339: the UPLOADING view; repeat throws a RangeError when its
\* count is negative, and the view is not drawn
UploadingView(s) ==
  LET percent == MathRound(s.progress)
      filled == MathRound([n |-> s.progress.n, d |-> s.progress.d * 5])
  IN IF 20 - filled < 0
       THEN [ threw |-> TRUE, percent |-> percent, readout |-> "RangeError", bar |-> << >> ]
       ELSE [ threw |-> FALSE, percent |-> percent,
              readout |-> ToString(percent) \o "% Complete",
              bar |-> Repeat(FULL_BLOCK, filled) \o Repeat(LIGHT_SHADE, 20 - filled) ]

KnownSteps ==
  { MAIN_MENU, HELP, LOGIN, AUTHENTICATING, FILE_INPUT_METHOD, ENTER_FILE_PATH,
    SELECT_FILES, ENTER_TITLE, ENTER_DESC, ENTER_TAGS, SELECT_PRIVACY, CONFIRM_UPLOAD,
    UPLOADING, SUCCESS, ERROR }

\* lines 182-358: the case of renderStep that draws the step
renderStep(s) == IF s.step \in KnownSteps THEN s.step ELSE "Unknown step"

Next ==
  \/ \E item \in mainMenuOptions : handleMainMenuSelect(item)
  \/ \E item \in fileInputMethodOptions : handleFileInputMethodSelect(item)
  \/ autoSelectEffect
  \/ \E i \in 1..Len(listing) : handleFileSelect(listing[i])
  \/ \E value \in ManualInputs : handleFilePathChange(value)
  \/ handleFilePathSubmit
  \/ \E title \in TitleInputs : handleTitleChange(title)
  \/ handleTitleSubmit
  \/ \E desc \in DescInputs : handleDescChange(desc)
  \/ handleDescSubmit
  \/ \E tags \in TagInputs : handleTagsChange(tags)
  \/ handleTagsSubmit
  \/ \E item \in privacyOptions : handlePrivacySelect(item)
  \/ handleUpload
  \/ uploadAuthorizeSettles
  \/ uploadVideoStarts
  \/ \E b \in ProgressPoints(up.fileSize) : onUploadProgress(b)
  \/ \E err \in { UNDEFINED, ApiErrorMessage }, id \in ResponseIds : insertCompletes(err, id)
  \/ handleLogin
  \/ loginAuthorizeSettles
  \/ handleBackToMenu
  \/ \E q \in { PathVideo } \cup { PathResolve(n) : n \in dir } : externalRemove(q)

Spec == Init /\ [][Next]_vars

(***************************************************************************)
(* The browse listing over every small working directory.                  *)
(***************************************************************************)
CandidateSet == { CandidateNames[i] : i \in 1..Len(CandidateNames) }

BrowseDirs == { d \in SUBSET CandidateSet : Cardinality(d) <= MaxDirSize }

InitBrowse ==
  /\ state = InitialState
  /\ listing = << >>
  /\ pc = "ui"
  /\ dir \in BrowseDirs
  /\ removed = {}
  /\ tokensFile = DefaultTokenFile
  /\ credsExists = TRUE
  /\ auth = NoAuth
  /\ up = NoUpload
  /\ fsCalls = << >>
  /\ tagsEntry = << >>
  /\ LoggerInit(getLogFilePath(1))

NextBrowse ==
  \/ handleMainMenuSelect("upload")
  \/ handleFileInputMethodSelect("browse")
  \/ autoSelectEffect
  \/ \E i \in 1..Len(listing) : handleFileSelect(listing[i])

SpecBrowse == InitBrowse /\ [][NextBrowse]_vars

(***************************************************************************)
(* The tags field over every short entry.                                  *)
(***************************************************************************)
\* the longest entry typed into the tags field
MaxTagLen == 4

TagAlphabet == { "a", "b", ",", " " }

\* every text of at most MaxTagLen characters, and the entry 'a, b ,c'
TagTexts ==
  TagInputs \cup UNION { [1..n -> TagAlphabet] : n \in 0..MaxTagLen }

InitTags ==
  /\ state = InitialState
  /\ listing = << >>
  /\ pc = "ui"
  /\ dir = { NameA, NameG }
  /\ removed = {}
  /\ tokensFile = DefaultTokenFile
  /\ credsExists = TRUE
  /\ auth = NoAuth
  /\ up = NoUpload
  /\ fsCalls = << >>
  /\ tagsEntry = << >>
  /\ LoggerInit(getLogFilePath(1))

NextTags ==
  \/ handleMainMenuSelect("upload")
  \/ handleFileInputMethodSelect("browse")
  \/ autoSelectEffect
  \/ handleTitleSubmit
  \/ handleDescSubmit
  \/ \E tags \in TagTexts : handleTagsChange(tags)
  \/ handleTagsSubmit

SpecTags == InitTags /\ [][NextTags]_vars

\* ---- the tags field, typed into one character at a time ----

\* Array.prototype.join(sep) of an array of texts
RECURSIVE Join(_, _)
Join(parts, sep) ==
  IF parts = << >> THEN << >>
  ELSE IF Len(parts) = 1 THEN parts[1]
  ELSE parts[1] \o sep \o Join(Tail(parts), sep)

\* line 313: value={(state.metadata.tags || []).join(', ')}
TagsFieldValue(s) ==
  IF s.metadata.tags = UNDEFINED_TAGS THEN << >>
  ELSE Join(s.metadata.tags, << ",", " " >>)

\* lines 313 and 110-112: one keystroke in the tags field.  The field is a
\* controlled input: its change event carries the value it displays with
\* the typed character added at the cursor, which is at the end while the
\* user only types.  tagsEntry collects the characters typed
typeTagsCharacter(c) ==
  /\ pc = "ui" /\ state.step = ENTER_TAGS
  /\ Len(tagsEntry) < MaxTagLen
  /\ NoCalls
  /\ state' = [state EXCEPT !.metadata.tags = ParseTags(TagsFieldValue(state) \o << c >>)]
  /\ tagsEntry' = tagsEntry \o << c >>
  /\ UNCHANGED << listing, pc, Env >>
  /\ UNCHANGED loggerVars

NextTyping ==
  \/ handleMainMenuSelect("upload")
  \/ handleFileInputMethodSelect("browse")
  \/ autoSelectEffect
  \/ handleTitleSubmit
  \/ handleDescSubmit
  \/ \E c \in TagAlphabet : typeTagsCharacter(c)
  \/ handleTagsSubmit

SpecTyping == InitTags /\ [][NextTyping]_vars

(***************************************************************************)
(* One upload followed byte by byte.                                       *)
(***************************************************************************)
\* the most bytes appended to the file after uploadVideo read its size
MaxGrowth == 3

InitProgress ==
  /\ state = InitialState
  /\ listing = << >>
  /\ pc = "ui"
  /\ dir \in { { NameA }, { NameC }, { NameD } }
  /\ removed = {}
  /\ tokensFile = DefaultTokenFile
  /\ credsExists = TRUE
  /\ auth = NoAuth
  /\ up = NoUpload
  /\ fsCalls = << >>
  /\ tagsEntry = << >>
  /\ LoggerInit(getLogFilePath(1))

\* the stream reports the bytes it has read so far: up to the size of the
\* file, and beyond it when the file has grown since statSync
NextProgress ==
  \/ handleMainMenuSelect("upload")
  \/ handleFileInputMethodSelect("browse")
  \/ autoSelectEffect
  \/ handleTitleChange("My video")
  \/ handleTitleSubmit
  \/ handleDescSubmit
  \/ handleTagsSubmit
  \/ handlePrivacySelect("private")
  \/ handleUpload
  \/ uploadAuthorizeSettles
  \/ uploadVideoStarts
  \/ \E b \in 1..(up.fileSize + MaxGrowth) : onUploadProgress(b)
  \/ \E err \in { UNDEFINED, ApiErrorMessage } : insertCompletes(err, "abc123")

SpecProgress == InitProgress /\ [][NextProgress]_vars

(***************************************************************************)
(* The operations of the logger on its files, logger.ts.                   *)
(***************************************************************************)
RECURSIVE SumLines(_, _)
SumLines(files, paths) ==
  IF paths = {} THEN 0
  ELSE LET f == CHOOSE x \in paths : TRUE
       IN Len(files[f]) + SumLines(files, paths \ { f })

\* the lines all log files hold
TotalLines == SumLines(logFiles, LogFilePaths)

\* lines 55-62: writeToFile; ioFails: appendFileSync fails for a reason of the
\* disk.  appendFileSync(undefined, ...) throws whatever the disk does.
writeToFile(op, entry, err, ioFails) ==
  LET logLines == formatLogEntry(entry)
      appends == currentLogFile # UNDEFINED /\ ~ioFails
  IN /\ logFiles' = IF appends
                      THEN [ logFiles EXCEPT ![currentLogFile] = @ \o logLines ]
                      ELSE logFiles
     /\ lastLog' = [ op |-> op, entry |-> entry, err |-> err, lines |-> logLines,
                     day |-> today, appended |-> appends, ioFailed |-> ioFails ]

\* a call the level threshold suppresses (lines 80, 93, 106, 119)
suppressed(op) ==
  /\ logFiles' = logFiles
  /\ lastLog' = [ NoLog EXCEPT !.op = op, !.day = today ]

\* lines 79-90
debug(message, metadata, ioFails) ==
  /\ TotalLines < MaxLogLines
  /\ IF ~shouldLog("DEBUG")
       THEN suppressed("debug")
       ELSE writeToFile("debug", Entry(today, "DEBUG", message, metadata, UNDEFINED),
                        NoError, ioFails)
  /\ UNCHANGED << today, currentLogFile, wizardVars >>

\* lines 92-103
info(message, metadata, ioFails) ==
  /\ TotalLines < MaxLogLines
  /\ IF ~shouldLog("INFO")
       THEN suppressed("info")
       ELSE writeToFile("info", Entry(today, "INFO", message, metadata, UNDEFINED),
                        NoError, ioFails)
  /\ UNCHANGED << today, currentLogFile, wizardVars >>

\* lines 105-116
warn(message, metadata, ioFails) ==
  /\ TotalLines < MaxLogLines
  /\ IF ~shouldLog("WARN")
       THEN suppressed("warn")
       ELSE writeToFile("warn", Entry(today, "WARN", message, metadata, UNDEFINED),
                        NoError, ioFails)
  /\ UNCHANGED << today, currentLogFile, wizardVars >>

\* lines 118-144
error(message, err, metadata, ioFails) ==
  /\ TotalLines < MaxLogLines
  /\ IF ~shouldLog("ERROR")
       THEN suppressed("error")
       ELSE writeToFile("error",
                        Entry(today, "ERROR", message, errorMetadata(err, metadata),
                              errorStack(err)),
                        err, ioFails)
  /\ UNCHANGED << today, currentLogFile, wizardVars >>

\* lines 249-256: clearLogs; unlinkSync throws when the file does not exist
\* or has no name
clearLogs(ioFails) ==
  /\ IF currentLogFile # UNDEFINED /\ logFiles[currentLogFile] # << >>
       THEN LET entry == Entry(today, "INFO", "Log file cleared", UNDEFINED_METADATA,
                               UNDEFINED)
            IN /\ logFiles' = [ logFiles EXCEPT ![currentLogFile] =
                                  IF ioFails THEN << >> ELSE formatLogEntry(entry) ]
               /\ lastLog' = [ op |-> "clearLogs", entry |-> entry, err |-> NoError,
                               lines |-> formatLogEntry(entry), day |-> today,
                               appended |-> ~ioFails, ioFailed |-> ioFails ]
       ELSE /\ TotalLines < MaxLogLines
            /\ LET err == ErrorObject("ENOENT: no such file or directory, unlink")
               IN writeToFile("clearLogs",
                              Entry(today, "ERROR", "Failed to clear log file",
                                    errorMetadata(err, UNDEFINED_METADATA), errorStack(err)),
                              err, ioFails)
  /\ UNCHANGED << today, currentLogFile, wizardVars >>

\* midnight (UTC) passes while the process runs
dayChanges ==
  /\ today < MaxDay
  /\ today' = today + 1
  /\ UNCHANGED << currentLogFile, logFiles, lastLog, wizardVars >>

\* what the program passes as errors and as metadata
LoggedErrors == { ErrorObject("File not found: /v"), ThrownString, ThrownObject, NoError }
LoggedMetadata == { UNDEFINED_METADATA, << >>, FilePathMetadata }

\* The logger is constructed on day 1.  The class declares getLogFilePath
\* twice (lines 32 and 235), which TypeScript reports as an error.  In a
\* class emitted all the same the later declaration replaces the earlier,
\* and the constructor's call (line 23) returns the field not yet set; with
\* the duplicate taken away the call runs the first declaration.  Both
\* outcomes are followed.
InitLogger ==
  /\ state = InitialState
  /\ listing = << >>
  /\ pc = "ui"
  /\ dir = DefaultDir
  /\ removed = {}
  /\ tokensFile = DefaultTokenFile
  /\ credsExists = TRUE
  /\ auth = NoAuth
  /\ up = NoUpload
  /\ fsCalls = << >>
  /\ tagsEntry = << >>
  /\ \E file \in { getLogFilePath(1), getLogFilePathField(UNDEFINED) } : LoggerInit(file)

NextLogger ==
  \/ \E m \in LoggedMetadata, f \in BOOLEAN : debug("Upload progress", m, f)
  \/ \E m \in LoggedMetadata, f \in BOOLEAN : info("Authentication process started", m, f)
  \/ \E m \in LoggedMetadata, f \in BOOLEAN : warn("File validation failed", m, f)
  \/ \E e \in LoggedErrors, m \in LoggedMetadata, f \in BOOLEAN :
       error("Video upload failed", e, m, f)
  \/ \E f \in BOOLEAN : clearLogs(f)
  \/ dayChanges

SpecLogger == InitLogger /\ [][NextLogger]_vars

(***************************************************************************)
(* Claims.                                                                 *)
(***************************************************************************)

\* C1: an authorize() call that finds the token cache file never launches the
\* consent flow, whatever the cache holds and whether or not credentials.json
\* exists.
C1_CachedNeverConsents == auth.calls /\ auth.cacheExisted => ~auth.consent

\* a call that finds the cache an earlier consent flow of this run wrote
C1_Witness ==
  /\ auth.calls /\ auth.cacheExisted /\ auth.ok
  /\ auth.credentials = TokenB
  /\ credsExists

\* the step changes of the table of the specification
AllowedTransitions ==
  { << MAIN_MENU, FILE_INPUT_METHOD >>, << MAIN_MENU, LOGIN >>, << MAIN_MENU, HELP >>,
    << FILE_INPUT_METHOD, SELECT_FILES >>, << FILE_INPUT_METHOD, ENTER_FILE_PATH >>,
    << SELECT_FILES, ENTER_TITLE >>,
    << ENTER_FILE_PATH, ENTER_TITLE >>, << ENTER_FILE_PATH, ERROR >>,
    << ENTER_TITLE, ENTER_DESC >>, << ENTER_DESC, ENTER_TAGS >>,
    << ENTER_TAGS, SELECT_PRIVACY >>, << SELECT_PRIVACY, CONFIRM_UPLOAD >>,
    << CONFIRM_UPLOAD, UPLOADING >>, << UPLOADING, SUCCESS >>, << UPLOADING, ERROR >>,
    << LOGIN, AUTHENTICATING >>, << AUTHENTICATING, MAIN_MENU >>,
    << AUTHENTICATING, ERROR >>,
    << HELP, MAIN_MENU >>, << ERROR, MAIN_MENU >> }

\* C2: the step changes only along the transitions of the table, the process
\* exits only from the main menu, and the view is never the 'Unknown step'
\* fallback.
C2_OnlyTableTransitions ==
  [][ /\ state'.step # state.step => << state.step, state'.step >> \in AllowedTransitions
      /\ pc' = "exited" /\ pc # "exited" => state.step = MAIN_MENU
      /\ renderStep(state') # "Unknown step" ]_vars

\* the last transition of the longest path of the table has been taken
C2_Witness == state.step = SUCCESS /\ up.completed /\ pc = "ui"

\* C3: whenever an upload attempt starts at file selection, also after the
\* Error state's return to the main menu, the file path, title, description,
\* tags, privacy and progress have their initial values.
C3_NoPartialStateKept ==
  state.step = FILE_INPUT_METHOD =>
    /\ state.filePath = InitialState.filePath
    /\ state.metadata = InitialState.metadata
    /\ state.progress = InitialState.progress

\* C4: uploadVideo tests existence, then directory, then regular file; the
\* first test that fails gives FileNotFound, PathIsDirectory or
\* PathNotRegularFile, the failure is logged as an upload error and shown, and
\* the insert call is not issued.
C4_PrecheckOrder ==
  up.calls =>
    /\ ~up.exists => up.failure = "FileNotFound" /\ up.stat = "none"
    /\ up.stat = "dir" => up.failure = "PathIsDirectory"
    /\ up.stat = "other" => up.failure = "PathNotRegularFile"
    /\ up.failure \in { "FileNotFound", "PathIsDirectory", "PathNotRegularFile" } =>
         /\ ~up.insertIssued
         /\ up.log = << [ level |-> "ERROR", message |-> "Video upload failed",
                          error |-> state.error ] >>
         /\ state.step = ERROR
         /\ state.error = PrecheckMessage(up.failure, up.filePath)

\* a directory reached uploadVideo and was refused as a directory
C4_Witness ==
  /\ up.calls /\ up.filePath = PathDir
  /\ up.failure = "PathIsDirectory" /\ ~up.insertIssued

\* C5 as stated: the wizard goes from ConfirmUpload to Uploading only if the
\* title is non-empty and the file path is an existing regular file then.
C5_UploadingOnlyIfRegularFile ==
  [][ state.step = CONFIRM_UPLOAD /\ state'.step = UPLOADING =>
        /\ ~FalsyString(state.metadata.title)
        /\ StatKind(dir, removed, state.filePath) = "file" ]_vars

\* C5 amended: the wizard goes from ConfirmUpload to Uploading only if the
\* title and the file path are non-empty; the insert call is issued only if,
\* besides, the path was an existing regular file when uploadVideo tested it.
C5_Amended ==
  [][ /\ state.step = CONFIRM_UPLOAD /\ state'.step = UPLOADING =>
           /\ ~FalsyString(state.metadata.title)
           /\ state.filePath # UNDEFINED_TEXT /\ state.filePath # << >>
      /\ up'.insertIssued =>
           /\ ~FalsyString(state'.metadata.title)
           /\ up'.exists /\ up'.stat = "file" ]_vars

\* the insert call has been issued for a confirmed upload
C5_Witness == state.step = UPLOADING /\ up.insertIssued /\ up.stat = "file"

\* C6: the wizard is in Success exactly when the insert call completed
\* without error with a response carrying an identifier; videoId is then that
\* identifier and the watch line shows https://youtu.be/<identifier>; an error
\* or a response without identifier ends in Error.
C6_SuccessIffIdentifier ==
  /\ state.step = SUCCESS =>
       /\ up.completed /\ up.err = UNDEFINED
       /\ up.responseId \notin { UNDEFINED, "" }
       /\ state.videoId = up.responseId
       /\ SuccessView(state).watchLine = "Watch: https://youtu.be/" \o up.responseId
       /\ up.responseId = "abc123" =>
            SuccessView(state).watchLine = "Watch: https://youtu.be/abc123"
  /\ up.completed =>
       IF up.err = UNDEFINED /\ up.responseId \notin { UNDEFINED, "" }
         THEN state.step = SUCCESS
         ELSE state.step = ERROR

\* the upload of the example has succeeded
C6_Witness == state.step = SUCCESS /\ state.videoId = "abc123" /\ up.completed

\* an input that is absent, empty or made of white space only
WhitespaceOnly(t) == t = UNDEFINED_TEXT \/ \A i \in 1..Len(t) : t[i] \in {" ", "\t"}

\* C7: a submit of the file path field with an empty or whitespace-only input
\* goes to Error with 'Please enter a file path' and makes no file-system
\* call.
C7_BlankPathRejected ==
  [][ /\ state.step = ENTER_FILE_PATH /\ state'.step # ENTER_FILE_PATH
      /\ WhitespaceOnly(state.filePath)
      => /\ state'.step = ERROR
         /\ state'.error = "Please enter a file path"
         /\ fsCalls' = << >> ]_vars

\* a whitespace-only path has been refused
C7_Witness ==
  /\ state.step = ERROR /\ state.error = "Please enter a file path"
  /\ state.filePath = <<" ", "\t">>

\* what resolving the links of the paths the user may type gives
ExpectedRealPath(p) ==
  IF p = PathLink THEN PathVideo
  ELSE IF p = NameA THEN <<"/", "w", "/", "a", ".", "m", "p", "4">>
  ELSE p

\* C8: a submit of the file path field with a path that does not exist goes
\* to Error with 'File does not exist'; with an existing path it stores the
\* resolved path and goes to EnterTitle, unless resolving fails, and then it
\* goes to Error with the message of the failure.
C8_PathValidated ==
  [][ /\ state.step = ENTER_FILE_PATH /\ state'.step # ENTER_FILE_PATH
      /\ ~WhitespaceOnly(state.filePath)
      => IF ~ExistsSync(dir, removed, state.filePath)
           THEN state'.step = ERROR /\ state'.error = "File does not exist"
           ELSE \/ /\ state'.step = ENTER_TITLE
                   /\ state'.filePath = ExpectedRealPath(state.filePath)
                \/ /\ state'.step = ERROR
                   /\ state'.error = "EACCES: permission denied, realpath"
                   /\ fsCalls' = <<"existsSync", "realpathSync">> ]_vars

\* a relative path typed by the user has been stored resolved
C8_Witness ==
  /\ state.step = ENTER_TITLE /\ fsCalls = <<"existsSync", "realpathSync">>
  /\ state.filePath = <<"/", "w", "/", "a", ".", "m", "p", "4">>

\* C9: with one match the wizard leaves SelectFiles for EnterTitle by the
\* effect alone, with that file selected; with two or more it stays until a
\* file is selected; with none it shows the empty-state message and stays.
C9_AutoAdvance ==
  [][ /\ pc = "effect" /\ Len(listing) = 1 =>
           /\ state'.step = ENTER_TITLE /\ state'.filePath = listing[1].value
           /\ pc' = "ui"
      /\ pc = "effect" /\ Len(listing) # 1 => state'.step = SELECT_FILES
      /\ state.step = SELECT_FILES /\ pc = "ui" /\ state'.step # SELECT_FILES =>
           /\ Len(listing) >= 2
           /\ state'.step = ENTER_TITLE
           /\ \E i \in 1..Len(listing) : state'.filePath = listing[i].value
      /\ state.step = SELECT_FILES /\ Len(listing) = 0 =>
           /\ state'.step = SELECT_FILES
           /\ SelectFilesView(listing) = "No video files found in current directory." ]_vars

\* the single video of the directory has been selected without a selection
C9_Witness ==
  /\ dir = { NameA, NameG }
  /\ state.step = ENTER_TITLE /\ state.filePath = PathResolve(NameA)
  /\ state.metadata.title = UNDEFINED /\ fsCalls = << >>

\* the extensions of video files, with their dot
VideoExtensions ==
  { <<".", "m", "p", "4">>, <<".", "m", "o", "v">>, <<".", "a", "v", "i">>,
    <<".", "w", "m", "v">> }

\* the name ends in one of the extensions, letters compared without case
EndsWithVideoExtension(name) ==
  \E ext \in VideoExtensions :
    /\ Len(name) >= Len(ext)
    /\ LET tail == SubSeq(name, Len(name) - Len(ext) + 1, Len(name))
       IN [i \in 1..Len(tail) |-> Canonicalize(tail[i])] = ext

\* C10: the browse listing holds exactly the names of the directory that end
\* in .mp4, .mov, .avi or .wmv, compared without case, each once.
C10_ListingIsVideoFiles ==
  state.step = SELECT_FILES =>
    /\ { listing[i].label : i \in 1..Len(listing) } = { n \in dir : EndsWithVideoExtension(n) }
    /\ { listing[i].label : i \in 1..Len(listing) } = dir \cap { NameA, NameB, NameC, NameD }
    /\ \A i, j \in 1..Len(listing) : listing[i].label = listing[j].label => i = j

\* a directory with a video file and a name holding an extension in its middle
C10_Witness ==
  /\ state.step = SELECT_FILES /\ dir = { NameB, NameE }
  /\ Len(listing) = 1 /\ listing[1].label = NameB

\* the positions of the commas of a text, and the positions around the text
Cuts(text) == { 0, Len(text) + 1 } \cup { i \in 1..Len(text) : text[i] = "," }

\* the pieces of a text: << a, b >> for the characters strictly between two
\* successive cuts a and b
Pieces(text) ==
  { p \in Cuts(text) \X Cuts(text) :
      p[1] < p[2] /\ \A c \in Cuts(text) : ~(p[1] < c /\ c < p[2]) }

\* the positions of a piece that hold something else than white space
Inked(text, p) == { i \in (p[1] + 1)..(p[2] - 1) : text[i] \notin { " ", "\t" } }

\* the pieces that are not blank, from the left, each from its first to its
\* last inked character
ExpectedTags(text) ==
  LET kept == { p \in Pieces(text) : Inked(text, p) # {} }
      nth(i) == CHOOSE p \in kept : Cardinality({ q \in kept : q[1] < p[1] }) = i - 1
      lo(p) == CHOOSE i \in Inked(text, p) : \A j \in Inked(text, p) : i <= j
      hi(p) == CHOOSE i \in Inked(text, p) : \A j \in Inked(text, p) : i >= j
  IN [ i \in 1..Cardinality(kept) |-> SubSeq(text, lo(nth(i)), hi(nth(i))) ]

\* C11: the stored tags are the comma-separated pieces of the entry, trimmed,
\* the empty ones dropped, in order and with duplicates; no stored tag is
\* empty or has white space at an end; 'a, b ,c' gives a, b, c.
C11_TagsParsed ==
  state.metadata.tags # UNDEFINED_TAGS =>
    LET tags == state.metadata.tags
    IN /\ tags = ExpectedTags(tagsEntry)
       /\ \A i \in 1..Len(tags) :
            /\ tags[i] # << >>
            /\ tags[i][1] \notin { " ", "\t" }
            /\ tags[i][Len(tags[i])] \notin { " ", "\t" }
       /\ tagsEntry = << "a", ",", " ", "b", " ", ",", "c" >> =>
            tags = << << "a" >>, << "b" >>, << "c" >> >>

\* the entry 'a, b ,c' has been parsed
C11_Witness ==
  /\ tagsEntry = << "a", ",", " ", "b", " ", ",", "c" >>
  /\ state.metadata.tags = << << "a" >>, << "b" >>, << "c" >> >>
  /\ state.step = SELECT_PRIVACY

\* C12: in every Uploading state the readout is a whole percent from 0 to
\* 100 and the bar has 20 cells, round(percent/5) of them filled and the
\* others empty; with 0.47 of the file transferred the readout is
\* '47% Complete' and the bar has 9 filled and 11 empty cells.
C12_ReadoutAndBar ==
  state.step = UPLOADING =>
    LET v == UploadingView(state)
        filled == Cardinality({ i \in 1..Len(v.bar) : v.bar[i] = FULL_BLOCK })
        empty == Cardinality({ i \in 1..Len(v.bar) : v.bar[i] = LIGHT_SHADE })
    IN /\ ~v.threw
       /\ v.percent \in 0..100
       /\ Len(v.bar) = 20
       /\ filled = (2 * v.percent + 5) \div 10
       /\ empty = 20 - filled
       /\ up.bytesRead > 0 /\ 100 * up.bytesRead = 47 * up.fileSize =>
            v.readout = "47% Complete" /\ filled = 9 /\ empty = 11

\* C13 as stated: the value passed to onProgress is bytesRead / fileSize,
\* between 0 and 1 whenever 0 <= bytesRead <= fileSize.
C13_ProgressIsFraction ==
  up.insertIssued /\ up.bytesRead > 0 =>
    /\ state.progress.n * up.fileSize = up.bytesRead * state.progress.d
    /\ up.bytesRead <= up.fileSize =>
         0 <= state.progress.n /\ state.progress.n <= state.progress.d

\* C13 amended: the value passed to onProgress is the percentage
\* 100 * bytesRead / fileSize, between 0 and 100 whenever
\* 0 <= bytesRead <= fileSize.
C13_Amended ==
  up.insertIssued /\ up.bytesRead > 0 =>
    /\ state.progress.n * up.fileSize = 100 * up.bytesRead * state.progress.d
    /\ up.bytesRead <= up.fileSize =>
         0 <= state.progress.n /\ state.progress.n <= 100 * state.progress.d

\* 47 of 100 bytes have been read
C13_Witness ==
  /\ state.step = UPLOADING /\ up.bytesRead = 47 /\ up.fileSize = 100
  /\ state.progress.n = 47 * state.progress.d

\* C14: authorize() called with no token cache and no credentials.json fails
\* with the 'Credentials file not found' error, logged and shown, without
\* launching the consent flow and without writing the cache.
C14_MissingCredentialsFile ==
  [][ ~auth.calls /\ auth'.calls /\ tokensFile = NO_FILE /\ ~credsExists =>
        /\ ~auth'.ok /\ ~auth'.consent
        /\ auth'.message = "Credentials file not found at: /w/credentials.json"
        /\ \E i \in 1..Len(auth'.log) :
             auth'.log[i] = [ level |-> "ERROR", message |-> "Authentication failed",
                              error |-> auth'.message ]
        /\ state'.step = ERROR /\ state'.error = auth'.message
        /\ tokensFile' = NO_FILE ]_vars

\* a login without cache and without credentials.json has failed
C14_Witness ==
  /\ auth.calls /\ ~auth.cacheExisted /\ ~credsExists /\ tokensFile = NO_FILE
  /\ state.step = ERROR
  /\ state.error = "Credentials file not found at: /w/credentials.json"

\* C15: the token cache changes only in an authorize() call whose consent
\* flow yielded tokens; a consent flow that fails or yields none leaves the
\* cache absent; after an authorize() that succeeded through the consent
\* flow the cache holds the tokens obtained, and the next authorize() does
\* not consent again and returns these tokens when it returns.
C15_CacheWrittenAfterConsent ==
  [][ /\ tokensFile' # tokensFile =>
           auth'.calls /\ auth'.consent /\ auth'.obtained \notin { UNDEFINED, NULL, "" }
      /\ ~auth.calls /\ auth'.calls /\ auth'.consent
           /\ auth'.obtained \in { UNDEFINED, NULL, "" } =>
           tokensFile' = NO_FILE /\ ~auth'.ok
      /\ ~auth.calls /\ auth'.calls /\ auth'.consent /\ auth'.ok =>
           /\ auth'.credentials = auth'.obtained
           /\ tokensFile'.json /\ tokensFile'.value = auth'.obtained
           /\ \A r \in authorize(tokensFile', credsExists') :
                ~r.consent /\ (r.ok => r.credentials = auth'.obtained)
           /\ \E r \in authorize(tokensFile', credsExists') : r.ok ]_vars

\* the consent flow has succeeded and its tokens are in the cache
C15_Witness ==
  /\ auth.calls /\ auth.consent /\ auth.ok /\ auth.obtained = TokenB
  /\ tokensFile = [ json |-> TRUE, value |-> TokenB ]

\* C16: uploadVideo is called only after an authorize() that returned
\* credentials that are present and not empty; an authorize() whose loaded or
\* obtained credentials are absent or empty fails, and the wizard goes to
\* Error with no upload attempted.
C16_UploadOnlyWithCredentials ==
  /\ up.calls =>
       /\ auth.calls /\ auth.ok
       /\ auth.credentials \notin { UNDEFINED, NULL, "", EMPTY_OBJECT }
  /\ auth.calls /\ ~auth.ok => state.step = ERROR /\ ~up.calls

\* C17: every step into Error comes with an ERROR log entry carrying the
\* message shown; a collaborator call that fails goes to Error; nothing is
\* called again after a failure without a new input of the user.
C17_ErrorsLogged ==
  [][ /\ state'.step = ERROR /\ state.step # ERROR =>
           \E i \in 1..Len(auth'.log \o up'.log) :
             /\ (auth'.log \o up'.log)[i].level = "ERROR"
             /\ (auth'.log \o up'.log)[i].error = state'.error
      /\ ~auth.calls /\ auth'.calls /\ ~auth'.ok => state'.step = ERROR /\ pc' = "ui"
      /\ ~up.calls /\ up'.calls /\ up'.failure # "" => state'.step = ERROR /\ pc' = "ui"
      /\ up'.completed /\ ~up.completed /\ up'.failure # "" =>
           state'.step = ERROR /\ pc' = "ui" ]_vars

\* C18: the lines Logger.error writes for an Error that has a stack are the
\* entry line '[timestamp] [ERROR] message {json-metadata}' and, after it,
\* the stack.
C18_StackFollowsEntry ==
  lastLog.op = "error" /\ lastLog.err.kind = "Error" /\ lastLog.err.stack # UNDEFINED =>
    /\ Len(lastLog.lines) = 2
    /\ lastLog.lines[2] = lastLog.err.stack
    /\ lastLog.appended =>
         /\ Len(logFiles[currentLogFile]) >= 2
         /\ logFiles[currentLogFile][Len(logFiles[currentLogFile])] = lastLog.err.stack

\* C19: uploadVideo, once its own checks of the file have passed, issues the
\* insert call whatever happens to the file operations of the logger, and no
\* Error of the wizard comes from one of them.
C19_LoggerFailsOpen ==
  /\ up.calls /\ up.exists /\ up.stat = "file" => up.insertIssued
  /\ state.step = ERROR => up.failure # "LoggerStatError"

\* C20: an entry that is written goes to the end of the file named for the
\* day of its timestamp, every entry not lost to a failure of the disk is
\* written, and no line of a log file is changed or removed afterwards.
C20_DailyAppendOnly ==
  [][ /\ \A f \in LogFilePaths :
           /\ Len(logFiles'[f]) >= Len(logFiles[f])
           /\ SubSeq(logFiles'[f], 1, Len(logFiles[f])) = logFiles[f]
      /\ lastLog' # lastLog /\ lastLog'.lines # << >> =>
           /\ lastLog'.appended \/ lastLog'.ioFailed
           /\ lastLog'.appended =>
                LET f == "/w/logs/youtube-uploader-" \o IsoDate(lastLog'.day) \o ".log"
                IN /\ lastLog'.entry.timestamp = IsoDate(lastLog'.day) \o "T12:00:00.000Z"
                   /\ logFiles'[f] = logFiles[f] \o lastLog'.lines
                   /\ \A g \in LogFilePaths \ { f } : logFiles'[g] = logFiles[g] ]_vars

\* an authorize() or uploadVideo() call started by the wizard is in flight
CallInFlight == pc \in { "login_authorize", "upload_authorize", "upload_start", "upload_insert" }

\* C21: in every reachable wizard state the loading flag is true exactly when
\* the step is Authenticating or Uploading, which is exactly while a call of
\* authorize() or uploadVideo() started by the wizard is in flight; it is
\* false in the state reached when the call resolves or fails, and after a
\* confirmation rejected by the missing-fields gate
C21_LoadingWhileInFlight ==
  /\ state.loading <=> state.step \in { AUTHENTICATING, UPLOADING }
  /\ state.loading <=> CallInFlight
  /\ state.step = AUTHENTICATING <=> pc = "login_authorize"
  /\ state.step = CONFIRM_UPLOAD /\ state.error = "Missing required fields"
       => ~state.loading /\ pc = "ui"

\* an upload that failed at the insert call, after a progress event: the flag
\* was raised for the call and is down again in the Error state
C21_Witness ==
  /\ state.step = ERROR /\ ~state.loading /\ pc = "ui"
  /\ up.insertIssued /\ up.completed /\ up.failure = "ApiError" /\ up.bytesRead > 0

\* C22: the wizard has no dead end: from every reachable state other than
\* process exit there is a sequence of user inputs and collaborator outcomes
\* that leads back to the main menu.  A state away from the main menu from
\* which such a sequence starts has a step that changes it, so the claim
\* requires that some step of the wizard is enabled there
C22_NoDeadEnd ==
  pc # "exited" /\ state.step # MAIN_MENU => ENABLED << Next >>_vars

\* C23: whenever the wizard is at Uploading, the displayed progress is 0
\* until the first progress event of that upload arrives, also when an
\* earlier upload of the same process has left a progress value
C23_ProgressStartsAtZero ==
  state.step = UPLOADING /\ up.bytesRead = 0
    => state.progress.n = 0 /\ UploadingView(state).readout = "0% Complete"

\* C24: entering a tag text into the tags field one character at a time
\* yields the same stored tags as delivering the whole text in a single
\* change event; typing 'a', ',', 'b' ends with the tags 'a' and 'b'
C24_TypingEqualsWholeText ==
  state.metadata.tags # UNDEFINED_TAGS =>
    /\ state.metadata.tags = ParseTags(tagsEntry)
    /\ tagsEntry = << "a", ",", "b" >> => state.metadata.tags = << << "a" >>, << "b" >> >>

====
